---- MODULE Spec2Model ----
(***************************************************************************)
(* A model of music_sync.py: the local scan (Sync.scan_local), the path    *)
(* mapper (Sync.convert_path_local_to_remote), the remote enumeration      *)
(* (Sync.scan_remote) and the two loops of Sync.sync, run once or twice    *)
(* against the same local tree.                                            *)
(*                                                                         *)
(* A path is a sequence of names, a name is a record of its stem and its   *)
(* suffix ("t" + ".flac"), so that Path.suffix and Path.with_suffix are    *)
(* computed and not tabulated.  Times are counted in ticks, TicksPerSec    *)
(* to the second: a local st_mtime keeps its fraction, the remote listing  *)
(* (stat -c %Y) gives whole seconds.                                       *)
(***************************************************************************)
EXTENDS Integers, Sequences, FiniteSets, TLC

VARIABLES
    local_fs,            \* the local tree: path -> [kind, mtime]
    filter_set,          \* the paths read from the manifest "Sync to <device>.m3u"
    scan_order,          \* directory -> its entries in the order os.scandir lists them
    remote,              \* the tree behind the mount: path -> [kind, mtime]
    now,                 \* the clock, in ticks
    dry_run,             \* args.dry_run of the current run
    pc,                  \* where the current run is
    local_collection,    \* self.local_collection
    remote_file_mtimes,  \* the dict built by sync from scan_remote
    to_delete,           \* the sorted list of sync's first loop
    di,                  \* index of the first loop in to_delete
    ui,                  \* index of the second loop in local_collection
    log,                 \* the lines printed by the current run, in order
    run,                 \* number of the current run
    prev_log,            \* the lines printed by the previous run
    prev_dry             \* args.dry_run of the previous run

vars == <<local_fs, filter_set, scan_order, remote, now, dry_run, pc,
          local_collection, remote_file_mtimes, to_delete, di, ui, log,
          run, prev_log, prev_dry>>

----------------------------------------------------------------------------
(* Bounds *)

\* ticks per second: the resolution of a local st_mtime below the second
TicksPerSec == 2
\* local files carry an mtime in 1..MaxLocalTime; the first run starts then
MaxLocalTime == 3
\* the clock stops advancing at MaxTime
MaxTime == 4
\* number of runs of main against the same local tree
MaxRuns == 2
\* the largest number of entries of a directory in the trees of SpecScan
MaxEntries == 3

----------------------------------------------------------------------------
(* Names and paths (pathlib) *)

N(stem, suffix) == [stem |-> stem, suffix |-> suffix]

\* str comparison of the stems used here, by code point: '.' < 'A'..'Z' < 'a'..'z'
StemOrder == <<".mediaartlocal", ".playlists", "A", "B", "Music", "Playlists", "Sync",
               "c", "home", "mnt", "o", "s", "sdcard", "t">>
SuffixOrder == <<"", ".JPG", ".flac", ".jpg", ".m3u", ".ogg", ".txt">>

RankIn(seq, x) == CHOOSE i \in 1..Len(seq) : seq[i] = x

\* str.__lt__ on stem + suffix, for the names used here: the stems decide, and
\* where one stem begins another (s, sdcard) the shorter one sorts first with any
\* suffix, '.' being below every letter
NameLess(a, b) ==
    \/ RankIn(StemOrder, a.stem) < RankIn(StemOrder, b.stem)
    \/ a.stem = b.stem /\ RankIn(SuffixOrder, a.suffix) < RankIn(SuffixOrder, b.suffix)

RECURSIVE PathLess(_, _)
\* PurePath.__lt__: the comparison of the two lists of parts
PathLess(p, q) ==
    IF p = <<>> THEN q # <<>>
    ELSE IF q = <<>> THEN FALSE
    ELSE IF Head(p) = Head(q) THEN PathLess(Tail(p), Tail(q))
    ELSE NameLess(Head(p), Head(q))

IsPrefix(b, p) == Len(b) <= Len(p) /\ SubSeq(p, 1, Len(b)) = b
\* p lies strictly below b
Below(p, b) == IsPrefix(b, p) /\ p # b
\* Path.relative_to, where it does not raise ValueError
relative_to(p, b) == SubSeq(p, Len(b) + 1, Len(p))
parent(p) == SubSeq(p, 1, Len(p) - 1)
name(p) == p[Len(p)]
suffix(p) == p[Len(p)].suffix
with_suffix(p, s) == [p EXCEPT ![Len(p)] = N(p[Len(p)].stem, s)]

RECURSIVE SortedAsc(_)
\* sorted(S) for a set of paths
SortedAsc(S) ==
    IF S = {} THEN <<>>
    ELSE LET m == CHOOSE x \in S : \A y \in S \ {x} : PathLess(x, y)
         IN <<m>> \o SortedAsc(S \ {m})

Reverse(s) == [i \in 1..Len(s) |-> s[Len(s) + 1 - i]]

RECURSIVE Flatten(_)
Flatten(ss) == IF ss = <<>> THEN <<>> ELSE Head(ss) \o Flatten(Tail(ss))

Range(s) == {s[i] : i \in 1..Len(s)}

----------------------------------------------------------------------------
(* Sync.__init__: the roots *)

HOME == <<N("home", "")>>
MOUNT_DIR == <<N("mnt", "")>>
LOCAL_ROOT == HOME \o <<N("Music", "")>>
LOCAL_PLAYLISTS_ROOT == LOCAL_ROOT \o <<N(".playlists", "")>>
REMOTE_ROOT == MOUNT_DIR \o <<N("sdcard", ""), N("Music", "")>>
\* the manifest opened by get_filter_set
MANIFEST == LOCAL_PLAYLISTS_ROOT \o <<N("Sync", ".m3u")>>

\* the mapping without the playlists case
convert_path_no_playlists(path) ==
    REMOTE_ROOT \o relative_to(path, LOCAL_ROOT)

(* Sync.convert_path_local_to_remote *)
convert_path_local_to_remote(path) ==
    IF IsPrefix(LOCAL_PLAYLISTS_ROOT, path)
    THEN REMOTE_ROOT \o <<N("Playlists", "")>> \o relative_to(path, LOCAL_PLAYLISTS_ROOT)
    ELSE REMOTE_ROOT \o relative_to(path, LOCAL_ROOT)

----------------------------------------------------------------------------
(* The sync units: File, OpusConvertFile, M3uConvertFile and Dir *)

Unit(type, local_path, remote_path) ==
    [type |-> type, local_path |-> local_path, remote_path |-> remote_path]

IsFileUnit(u) == u.type \in {"File", "OpusConvertFile", "M3uConvertFile"}

IMAGE_SUFFIXES == {".jpg", ".jpeg", ".png", ".JPG", ".JPEG", ".PNG"}

----------------------------------------------------------------------------
(* Sync.scan_local *)

is_file(path) == path \in DOMAIN local_fs /\ local_fs[path].kind = "file"
is_dir(path) == path \in DOMAIN local_fs /\ local_fs[path].kind = "dir"

\* os.scandir(local_dir): the direct children, in the order the filesystem lists
\* them; the order is arbitrary and each directory has its own
scandir(local_dir) == scan_order[local_dir]

\* what get_inner_files yields for a file entry
file_unit(entry, fset) ==
    IF suffix(entry) = ".m3u"
    THEN <<Unit("M3uConvertFile", entry, convert_path_local_to_remote(entry))>>
    ELSE IF entry \in fset
    THEN IF suffix(entry) = ".flac"
         THEN <<Unit("OpusConvertFile", entry,
                     with_suffix(convert_path_local_to_remote(entry), ".ogg"))>>
         ELSE <<Unit("File", entry, convert_path_local_to_remote(entry))>>
    ELSE <<>>

\* what get_inner_files appends to images for a file entry
image_unit(entry, fset) ==
    IF suffix(entry) # ".m3u" /\ entry \notin fset /\ suffix(entry) \in IMAGE_SUFFIXES
    THEN <<Unit("File", entry, convert_path_local_to_remote(entry))>>
    ELSE <<>>

\* the images list once get_inner_files is exhausted
images(local_dir, fset) ==
    LET es == scandir(local_dir)
    IN Flatten([i \in 1..Len(es) |-> IF is_file(es[i]) THEN image_unit(es[i], fset) ELSE <<>>])

\* emit with the Dir yielded after the first inner unit
emit_dir_second(local_dir, inner, imgs) ==
    IF inner = <<>> THEN <<>>
    ELSE <<Head(inner), Unit("Dir", local_dir, convert_path_local_to_remote(local_dir))>>
         \o Tail(inner) \o imgs

\* emit without the test for an empty directory
emit_always(local_dir, inner, imgs) ==
    <<Unit("Dir", local_dir, convert_path_local_to_remote(local_dir))>> \o inner \o imgs

\* emit without the Dir
emit_no_dir(local_dir, inner, imgs) ==
    inner \o imgs

\* the tail of scan_local: nothing when get_inner_files yields nothing, else the
\* Dir, the inner units and the images
emit(local_dir, inner, imgs) ==
    IF inner = <<>> THEN <<>>
    ELSE <<Unit("Dir", local_dir, convert_path_local_to_remote(local_dir))>> \o inner \o imgs

RECURSIVE scan_local(_, _)
RECURSIVE get_inner_files(_, _)

get_inner_files(local_dir, fset) ==
    LET es == scandir(local_dir)
    IN Flatten([i \in 1..Len(es) |->
            IF is_file(es[i]) THEN file_unit(es[i], fset)
            ELSE IF is_dir(es[i])
            THEN IF name(es[i]) = N(".mediaartlocal", "") THEN <<>>
                 ELSE scan_local(es[i], fset)
            ELSE <<>>])

scan_local(local_dir, fset) ==
    emit(local_dir, get_inner_files(local_dir, fset), images(local_dir, fset))

\* a scan that accepts every kind of entry
scan_raises_never(local_dir) == FALSE

RECURSIVE scan_raises(_)
\* the scan meets an entry that is neither a file nor a directory (AssertionError)
scan_raises(local_dir) ==
    \E e \in Range(scandir(local_dir)) :
        \/ ~is_file(e) /\ ~is_dir(e)
        \/ is_dir(e) /\ name(e) # N(".mediaartlocal", "") /\ scan_raises(e)

\* get_filter_set opens the manifest: it raises when the manifest is no file
get_filter_set_raises == ~is_file(MANIFEST)

----------------------------------------------------------------------------
(* The remote tree behind the mount (pathlib on the adbfs mount) *)

r_exists(fs, p) == p \in DOMAIN fs
r_is_dir(fs, p) == p \in DOMAIN fs /\ fs[p].kind = "dir"
r_children(fs, p) == {q \in DOMAIN fs : Below(q, p)}

\* an entry is removed from its directory: the directory's mtime moves
r_remove(fs, p, t) ==
    [q \in DOMAIN fs \ {p} |-> IF q = parent(p) THEN [fs[q] EXCEPT !.mtime = t] ELSE fs[q]]

\* an entry is written at time t: creating it moves the mtime of its directory,
\* rewriting a file that exists does not
r_put(fs, p, kind, t) ==
    [q \in DOMAIN fs \cup {p} |->
        IF q = p THEN [kind |-> kind, mtime |-> t]
        ELSE IF q = parent(p) /\ p \notin DOMAIN fs THEN [fs[q] EXCEPT !.mtime = t]
        ELSE fs[q]]

\* Path.rmdir succeeds on an empty directory
rmdir_ok(fs, p) == r_is_dir(fs, p) /\ r_children(fs, p) = {}
\* Path.unlink succeeds on an entry that is no directory
unlink_ok(fs, p) == r_exists(fs, p) /\ ~r_is_dir(fs, p)
\* Path.mkdir (not recursive) needs a free path in an existing directory
mkdir_ok(fs, p) == ~r_exists(fs, p) /\ r_is_dir(fs, parent(p))
\* the transforms open remote_path for writing in an existing directory
convert_ok(fs, p) == ~r_is_dir(fs, p) /\ r_is_dir(fs, parent(p))

----------------------------------------------------------------------------
(* Sync.scan_remote and the first lines of Sync.sync *)

\* stat -c %Y prints the mtime in whole seconds
stat_Y(mtime) == (mtime \div TicksPerSec) * TicksPerSec

\* dict(self.scan_remote(...)): every entry that find reaches from REMOTE_ROOT
scan_remote(fs) ==
    [p \in {q \in DOMAIN fs : IsPrefix(REMOTE_ROOT, q)} |-> stat_Y(fs[p].mtime)]

\* compute_to_delete without reverse=True
compute_to_delete_ascending(mtimes, collection) ==
    SortedAsc(DOMAIN mtimes \ {collection[i].remote_path : i \in 1..Len(collection)})

\* to_delete computed against the local paths of the units
compute_to_delete_by_local_path(mtimes, collection) ==
    Reverse(SortedAsc(DOMAIN mtimes \ {collection[i].local_path : i \in 1..Len(collection)}))

\* sorted(set(remote_file_mtimes) - {p.remote_path ...}, reverse=True)
compute_to_delete(mtimes, collection) ==
    Reverse(SortedAsc(DOMAIN mtimes \ {collection[i].remote_path : i \in 1..Len(collection)}))

\* needs_update with <= for <
needs_update_or_equal(f, mtimes) ==
    \/ f.remote_path \notin DOMAIN mtimes
    \/ is_file(f.local_path) /\ mtimes[f.remote_path] <= local_fs[f.local_path].mtime

\* needs_update that looks at files only
needs_update_files_only(f, mtimes) ==
    /\ is_file(f.local_path)
    /\ \/ f.remote_path \notin DOMAIN mtimes
       \/ mtimes[f.remote_path] < local_fs[f.local_path].mtime

\* the condition of the second loop
needs_update(f, mtimes) ==
    \/ f.remote_path \notin DOMAIN mtimes
    \/ is_file(f.local_path) /\ mtimes[f.remote_path] < local_fs[f.local_path].mtime

\* sync_order with the two loops exchanged
sync_order_swapped == <<"units", "delete">>

\* the two loops of sync, in the order in which they run
sync_order == <<"delete", "units">>

loop_len(phase, td, lc) == IF phase = "delete" THEN Len(td) ELSE Len(lc)

RECURSIVE pc_from(_, _, _)
\* the first loop, from the k-th on, that has something to iterate over
pc_from(k, td, lc) ==
    IF k > Len(sync_order) THEN "done"
    ELSE IF loop_len(sync_order[k], td, lc) > 0 THEN sync_order[k]
    ELSE pc_from(k + 1, td, lc)

\* where the run goes when the loop `phase` is exhausted
pc_after(phase, td, lc) ==
    pc_from(RankIn(sync_order, phase) + 1, td, lc)

\* the update of a file without the test of line 181
remote_path_exists_never(fs, p) == FALSE

\* line 181: if f.remote_path.exists()
remote_path_exists(fs, p) == r_exists(fs, p)

\* an exception caught inside the loop, which then goes on
raised_swallowed(phase) == phase

\* sync catches no exception (lines 159-183): one raised in a loop ends the run
raised(phase) == "error"

\* live with the flag ignored
live_always == TRUE

\* "if not self.args.dry_run": the guard of every mutation of sync
live == ~dry_run

LogLine(action, path) == [action |-> action, path |-> path]

----------------------------------------------------------------------------
(* The trees the runs start from *)

E(path, kind) == [path |-> path, kind |-> kind]
PathsOf(S) == {e.path : e \in S}

\* the subsets of cands that are trees: one entry per path, every entry but the
\* top one inside a directory of the subset
TreesOver(cands, top, mandatory) ==
    {S \in SUBSET cands :
        /\ mandatory \subseteq S
        /\ \A e1, e2 \in S : e1.path = e2.path => e1 = e2
        /\ \A e \in S : e.path = top \/ E(parent(e.path), "dir") \in S}

L(rel) == LOCAL_ROOT \o rel
R(rel) == REMOTE_ROOT \o rel

LocalMandatory ==
    {E(LOCAL_ROOT, "dir"), E(LOCAL_PLAYLISTS_ROOT, "dir"), E(MANIFEST, "file")}

\* a .mediaartlocal directory that holds a special file
ArtDir ==
    {E(L(<<N(".mediaartlocal", "")>>), "dir"),
     E(L(<<N(".mediaartlocal", ""), N("o", "")>>), "other")}

\* the local entries a run of the synchronisation may find
LocalCandidates ==
    LocalMandatory \cup
    {E(L(<<N("A", "")>>), "dir"),
     E(L(<<N("A", ""), N("t", ".flac")>>), "file"),
     E(L(<<N("A", ""), N("B", "")>>), "dir"),
     E(L(<<N("A", ""), N("B", ""), N("s", ".ogg")>>), "file"),
     E(L(<<N("o", "")>>), "other")} \cup ArtDir

\* a tree with the art directory holds nothing else but the manifest
LeanTree(S) == (S \cap ArtDir # {}) => S = LocalMandatory \cup ArtDir

\* the manifests: every track, or none
FilterSets ==
    {{L(<<N("A", ""), N("t", ".flac")>>), L(<<N("A", ""), N("B", ""), N("s", ".ogg")>>)},
     {}}

\* the remote entries below the mount; A and A/t.ogg may be of either kind
RemoteCandidates ==
    {E(REMOTE_ROOT, "dir"),
     E(R(<<N("Playlists", "")>>), "dir"),
     E(R(<<N("Playlists", ""), N("Sync", ".m3u")>>), "file"),
     E(R(<<N("A", "")>>), "dir"),
     E(R(<<N("A", "")>>), "file"),
     E(R(<<N("A", ""), N("t", ".ogg")>>), "file"),
     E(R(<<N("A", ""), N("t", ".ogg")>>), "dir"),
     E(R(<<N("A", ""), N("B", "")>>), "dir"),
     E(R(<<N("A", ""), N("B", ""), N("s", ".ogg")>>), "file")}

\* the mount point and /sdcard are always there
RemoteBase == {E(MOUNT_DIR, "dir"), E(parent(REMOTE_ROOT), "dir")}

\* a local st_mtime: older than the remote entries, of their second, or the latest
LocalTimes == {1, TicksPerSec, MaxLocalTime}
\* every remote entry is, at the start, one second old
RemoteTimes == {TicksPerSec}

LocalFs(S, mt) ==
    [p \in PathsOf(S) |->
        LET e == CHOOSE x \in S : x.path = p
        IN [kind |-> e.kind, mtime |-> IF e.kind = "file" THEN mt[p] ELSE 0]]

RemoteFs(T, rt) ==
    [p \in PathsOf(T) |->
        LET e == CHOOSE x \in T : x.path = p
        IN [kind |-> e.kind, mtime |-> rt]]

\* the entries of directory d in the tree fs
Entries(fs, d) == {p \in DOMAIN fs : Len(p) = Len(d) + 1 /\ IsPrefix(d, p)}

\* every order in which the members of S can be listed
Orders(S) ==
    {s \in [1..Cardinality(S) -> S] : \A i, j \in 1..Cardinality(S) : s[i] = s[j] => i = j}

RECURSIVE ListingsOver(_, _)
ListingsOver(fs, ds) ==
    IF ds = {} THEN {<<>>}
    ELSE LET d == CHOOSE x \in ds : TRUE
         IN {(d :> s) @@ f : s \in Orders(Entries(fs, d)), f \in ListingsOver(fs, ds \ {d})}

\* every way in which os.scandir can list the directories of the tree fs
Listings(fs) == ListingsOver(fs, {p \in DOMAIN fs : fs[p].kind = "dir"})

InitRun ==
    /\ now = MaxLocalTime
    /\ pc = "init"
    /\ local_collection = <<>>
    /\ remote_file_mtimes = <<>>
    /\ to_delete = <<>>
    /\ di = 1
    /\ ui = 1
    /\ log = <<>>
    /\ run = 1
    /\ prev_log = <<>>
    /\ prev_dry = FALSE

Init ==
    /\ \E S \in {T \in TreesOver(LocalCandidates, LOCAL_ROOT, LocalMandatory) : LeanTree(T)} :
         \E mt \in [{e.path : e \in {x \in S : x.kind = "file"}} -> LocalTimes] :
            local_fs = LocalFs(S, mt)
    /\ filter_set \in FilterSets
    /\ scan_order \in Listings(local_fs)
    /\ \E T \in TreesOver(RemoteCandidates, REMOTE_ROOT, {}) :
         \E rt \in RemoteTimes :
            remote = RemoteFs(T \cup RemoteBase, rt)
    /\ dry_run \in BOOLEAN
    /\ InitRun

----------------------------------------------------------------------------
(* Sync.__init__ *)

Construct ==
    /\ pc = "init"
    /\ ~get_filter_set_raises
    /\ ~scan_raises(LOCAL_ROOT)
    /\ local_collection' = scan_local(LOCAL_ROOT, filter_set)
    /\ pc' = "ready"
    /\ UNCHANGED <<local_fs, filter_set, scan_order, remote, now, dry_run,
                   remote_file_mtimes, to_delete, di, ui, log, run, prev_log, prev_dry>>

\* the manifest cannot be opened, or the scan meets an entry of unknown kind
ConstructFail ==
    /\ pc = "init"
    /\ get_filter_set_raises \/ scan_raises(LOCAL_ROOT)
    /\ pc' = "error"
    /\ UNCHANGED <<local_fs, filter_set, scan_order, remote, now, dry_run, local_collection,
                   remote_file_mtimes, to_delete, di, ui, log, run, prev_log, prev_dry>>

----------------------------------------------------------------------------
(* Sync.sync *)

\* line 156 and line 158
ScanRemote ==
    /\ pc = "ready"
    /\ LET mtimes == scan_remote(remote)
           td == compute_to_delete(mtimes, local_collection)
       IN /\ remote_file_mtimes' = mtimes
          /\ to_delete' = td
          /\ pc' = pc_from(1, td, local_collection)
    /\ di' = 1
    /\ ui' = 1
    /\ UNCHANGED <<local_fs, filter_set, scan_order, remote, now, dry_run,
                   local_collection, log, run, prev_log, prev_dry>>

\* find has nothing to start from: adb shell may report the failure (check=True)
ScanRemoteFail ==
    /\ pc = "ready"
    /\ ~r_exists(remote, REMOTE_ROOT)
    /\ pc' = "error"
    /\ UNCHANGED <<local_fs, filter_set, scan_order, remote, now, dry_run, local_collection,
                   remote_file_mtimes, to_delete, di, ui, log, run, prev_log, prev_dry>>

\* one iteration of the first loop (lines 159-165)
DeleteStep ==
    /\ pc = "delete"
    /\ LET f == to_delete[di]
           ok == IF r_is_dir(remote, f) THEN rmdir_ok(remote, f) ELSE unlink_ok(remote, f)
       IN /\ log' = Append(log, LogLine("Deleting", f))
          /\ IF ~live
             THEN /\ remote' = remote
                  /\ di' = di + 1
                  /\ pc' = IF di < Len(to_delete) THEN "delete"
                           ELSE pc_after("delete", to_delete, local_collection)
             ELSE IF ok
             THEN /\ remote' = r_remove(remote, f, now)
                  /\ di' = di + 1
                  /\ pc' = IF di < Len(to_delete) THEN "delete"
                           ELSE pc_after("delete", to_delete, local_collection)
             ELSE /\ remote' = remote
                  /\ di' = di
                  /\ pc' = raised("delete")
    /\ UNCHANGED <<local_fs, filter_set, scan_order, now, dry_run, local_collection,
                   remote_file_mtimes, to_delete, ui, run, prev_log, prev_dry>>

\* where the second loop goes after the unit at ui
after_unit == IF ui < Len(local_collection) THEN "units"
              ELSE pc_after("units", to_delete, local_collection)

\* one iteration of the second loop, up to the mutation of a file (lines 167-180)
UnitStep ==
    /\ pc = "units"
    /\ LET f == local_collection[ui]
       IN IF ~needs_update(f, remote_file_mtimes)
          THEN /\ ui' = ui + 1
               /\ pc' = after_unit
               /\ UNCHANGED <<remote, log>>
          ELSE IF f.type = "Dir"
          THEN /\ log' = Append(log, LogLine("Creating directory", f.remote_path))
               /\ IF ~live
                  THEN /\ ui' = ui + 1
                       /\ pc' = after_unit
                       /\ remote' = remote
                  ELSE IF mkdir_ok(remote, f.remote_path)
                  THEN /\ ui' = ui + 1
                       /\ pc' = after_unit
                       /\ remote' = r_put(remote, f.remote_path, "dir", now)
                  ELSE /\ ui' = ui
                       /\ pc' = raised("units")
                       /\ remote' = remote
          ELSE /\ log' = Append(log, LogLine("Syncing", f.remote_path))
               /\ remote' = remote
               /\ IF ~live
                  THEN /\ ui' = ui + 1
                       /\ pc' = after_unit
                  ELSE /\ ui' = ui
                       /\ pc' = "unlink"
    /\ UNCHANGED <<local_fs, filter_set, scan_order, now, dry_run, local_collection,
                   remote_file_mtimes, to_delete, di, run, prev_log, prev_dry>>

\* lines 181-182: if f.remote_path.exists(): f.remote_path.unlink()
UnlinkStep ==
    /\ pc = "unlink"
    /\ LET f == local_collection[ui]
       IN IF ~remote_path_exists(remote, f.remote_path)
          THEN /\ remote' = remote
               /\ pc' = "convert"
          ELSE IF unlink_ok(remote, f.remote_path)
          THEN /\ remote' = r_remove(remote, f.remote_path, now)
               /\ pc' = "convert"
          ELSE /\ remote' = remote
               /\ pc' = raised("unlink")
    /\ UNCHANGED <<local_fs, filter_set, scan_order, now, dry_run, local_collection,
                   remote_file_mtimes, to_delete, di, ui, log, run, prev_log, prev_dry>>

\* line 183: f.convert() writes remote_path
ConvertStep ==
    /\ pc = "convert"
    /\ LET f == local_collection[ui]
       IN IF convert_ok(remote, f.remote_path)
          THEN /\ remote' = r_put(remote, f.remote_path, "file", now)
               /\ ui' = ui + 1
               /\ pc' = after_unit
          ELSE /\ remote' = remote
               /\ ui' = ui
               /\ pc' = raised("convert")
    /\ UNCHANGED <<local_fs, filter_set, scan_order, now, dry_run, local_collection,
                   remote_file_mtimes, to_delete, di, log, run, prev_log, prev_dry>>

\* main leaves mount_phone with a fusermount -u that unmounts, and is started
\* again, a tick later, on the same local tree
NextRun ==
    /\ pc = "done"
    /\ run < MaxRuns
    /\ run' = run + 1
    /\ prev_log' = log
    /\ prev_dry' = dry_run
    /\ dry_run' \in BOOLEAN
    /\ now' = IF now < MaxTime THEN now + 1 ELSE now
    /\ pc' = "init"
    /\ local_collection' = <<>>
    /\ remote_file_mtimes' = <<>>
    /\ to_delete' = <<>>
    /\ di' = 1
    /\ ui' = 1
    /\ log' = <<>>
    /\ UNCHANGED <<local_fs, filter_set, scan_order, remote>>

Next ==
    \/ Construct
    \/ ConstructFail
    \/ ScanRemote
    \/ ScanRemoteFail
    \/ DeleteStep
    \/ UnitStep
    \/ UnlinkStep
    \/ ConvertStep
    \/ NextRun

Spec == Init /\ [][Next]_vars

----------------------------------------------------------------------------
(* The same runs when the mount or a tool may also fail: rmdir, unlink,    *)
(* mkdir, shutil.copyfile, ffmpeg and sed raise on an I/O error or on a    *)
(* non-zero exit, whatever the remote tree holds                            *)

\* a mutation of a live run raises; so does the existence test of line 181
\* (a stat through the mount), whether or not anything is at the path; a
\* convert that fails may already have created its output
ExternalFailure ==
    /\ live
    /\ \/ /\ pc = "delete"
          /\ log' = Append(log, LogLine("Deleting", to_delete[di]))
          /\ remote' = remote
       \/ /\ pc = "units"
          /\ local_collection[ui].type = "Dir"
          /\ needs_update(local_collection[ui], remote_file_mtimes)
          /\ log' = Append(log, LogLine("Creating directory", local_collection[ui].remote_path))
          /\ remote' = remote
       \/ /\ pc = "unlink"
          /\ UNCHANGED <<log, remote>>
       \/ /\ pc = "convert"
          /\ log' = log
          /\ \/ remote' = remote
             \/ /\ convert_ok(remote, local_collection[ui].remote_path)
                /\ remote' = r_put(remote, local_collection[ui].remote_path, "file", now)
    /\ pc' = raised(pc)
    /\ UNCHANGED <<local_fs, filter_set, scan_order, now, dry_run, local_collection,
                   remote_file_mtimes, to_delete, di, ui, run, prev_log, prev_dry>>

\* main cannot mount the phone (adb get-serialno or adbfs, both with check=True):
\* it raises before the engine is constructed
MountFail ==
    /\ pc = "init"
    /\ pc' = "mount_failed"
    /\ UNCHANGED <<local_fs, filter_set, scan_order, remote, now, dry_run, local_collection,
                   remote_file_mtimes, to_delete, di, ui, log, run, prev_log, prev_dry>>

\* the listing tool fails (lines 134-137: adb shell with check=True), whatever
\* the remote tree holds and in a dry run too: dict(self.scan_remote(...)) raises
\* before anything is printed or changed
ListingFail ==
    /\ pc = "ready"
    /\ pc' = "error"
    /\ UNCHANGED <<local_fs, filter_set, scan_order, remote, now, dry_run, local_collection,
                   remote_file_mtimes, to_delete, di, ui, log, run, prev_log, prev_dry>>

\* the tree fs without the entries in D (entries of the directory e) and all that
\* is below them; removing an entry moves the mtime of e
rmtree_done(fs, e, D, t) ==
    [q \in {x \in DOMAIN fs : \A d \in D : ~IsPrefix(d, x)} |->
        IF q = e /\ D # {} THEN [fs[q] EXCEPT !.mtime = t] ELSE fs[q]]

RECURSIVE rmtree_stopped(_, _, _)
\* shutil.rmtree of the entry e, stopped by the first entry it cannot remove:
\* some entries of a directory are gone with all below them (in any order, the
\* order of os.scandir), then either one more entry is stopped in its turn, or
\* all entries are gone and the rmdir of e itself fails
rmtree_stopped(fs, e, t) ==
    IF fs[e].kind # "dir" THEN {fs}
    ELSE LET K == {p \in DOMAIN fs : Len(p) = Len(e) + 1 /\ IsPrefix(e, p)}
         IN {rmtree_done(fs, e, K, t)} \cup
            UNION {UNION {rmtree_stopped(rmtree_done(fs, e, D, t), k, t) : k \in K \ D} :
                   D \in SUBSET K}

\* main leaves mount_phone, after sync has returned or raised, and fusermount -u
\* fails (it is run without check=True): the mount stays, and the cleanup of the
\* temporary directory removes the mount point recursively, through the mount,
\* in a dry run too.  The removal ends at the first entry that cannot be removed,
\* at the latest at the mount point itself, which is busy, and main raises: the
\* phone is left unchanged, partly deleted, or empty
UnmountFail ==
    /\ pc \in {"done", "error"}
    /\ remote' \in rmtree_stopped(remote, MOUNT_DIR, now)
    /\ pc' = "unmount_failed"
    /\ UNCHANGED <<local_fs, filter_set, scan_order, now, dry_run, local_collection,
                   remote_file_mtimes, to_delete, di, ui, log, run, prev_log, prev_dry>>

NextFail == Next \/ ExternalFailure \/ ListingFail \/ MountFail \/ UnmountFail

\* the states of Init in which the local files all carry the same mtime
InitFail ==
    /\ Init
    /\ \A p, q \in DOMAIN local_fs :
          (is_file(p) /\ is_file(q)) => local_fs[p].mtime = local_fs[q].mtime

SpecFail == InitFail /\ [][NextFail]_vars

----------------------------------------------------------------------------
(* The construction alone, over a wider choice of local trees and          *)
(* manifests                                                               *)

ScanCandidates ==
    {E(LOCAL_ROOT, "dir"),
     E(LOCAL_PLAYLISTS_ROOT, "dir"),
     E(MANIFEST, "file"),
     E(L(<<N("Playlists", "")>>), "dir"),
     E(L(<<N("Playlists", ""), N("Sync", ".m3u")>>), "file"),
     E(L(<<N("o", "")>>), "other"),
     E(L(<<N("A", "")>>), "dir"),
     E(L(<<N("A", ""), N("t", ".flac")>>), "file"),
     E(L(<<N("A", ""), N("t", ".ogg")>>), "file"),
     E(L(<<N("A", ""), N("c", ".jpg")>>), "file"),
     E(L(<<N("A", ""), N(".mediaartlocal", "")>>), "dir"),
     E(L(<<N("A", ""), N(".mediaartlocal", ""), N("o", "")>>), "other"),
     E(L(<<N("A", ""), N("B", "")>>), "dir"),
     E(L(<<N("A", ""), N("B", ""), N("s", ".txt")>>), "file"),
     E(L(<<N("A", ""), N("B", ""), N("c", ".JPG")>>), "file")}

\* the files a manifest may or may not name
ScanFilterable ==
    {L(<<N("A", ""), N("t", ".flac")>>),
     L(<<N("A", ""), N("t", ".ogg")>>),
     L(<<N("A", ""), N("c", ".jpg")>>),
     L(<<N("A", ""), N("B", ""), N("s", ".txt")>>)}

\* no directory of the tree holds more than MaxEntries entries, and a tree
\* without the manifest holds nothing but the two mandatory directories
SmallDirs(S) ==
    /\ \A e \in S : Cardinality({x \in S : parent(x.path) = e.path}) <= MaxEntries
    /\ E(MANIFEST, "file") \in S \/ Cardinality(S) = 2

InitScan ==
    /\ \E S \in {T \in TreesOver(ScanCandidates, LOCAL_ROOT,
                                 {E(LOCAL_ROOT, "dir"), E(LOCAL_PLAYLISTS_ROOT, "dir")}) :
                    SmallDirs(T)} :
         local_fs = LocalFs(S, [p \in PathsOf(S) |-> MaxLocalTime])
    /\ filter_set \in SUBSET (ScanFilterable \cap DOMAIN local_fs)
    /\ scan_order \in Listings(local_fs)
    /\ remote = RemoteFs(RemoteBase, TicksPerSec)
    /\ dry_run = FALSE
    /\ InitRun

NextScan ==
    \/ Construct
    \/ ConstructFail

SpecScan == InitScan /\ [][NextScan]_vars

----------------------------------------------------------------------------
(* Properties of the scan (checked under SpecScan) *)

UnitIdx == 1..Len(local_collection)
DirUnitOf(P) == \E i \in UnitIdx :
    local_collection[i].type = "Dir" /\ local_collection[i].local_path = P
UnitBelow(P) == \E j \in UnitIdx : Below(local_collection[j].local_path, P)
LocalChildren(P) == {p \in DOMAIN local_fs : parent(p) = P}
\* a file that the scan neither yields nor defers
ExcludedFile(p, fset) ==
    is_file(p) /\ file_unit(p, fset) = <<>> /\ image_unit(p, fset) = <<>>

\* C7: in the scan output the Dir unit of a directory D comes before every unit
\* whose local path lies below D
C7_PreOrderScan ==
    pc = "ready" =>
        \A i, j \in UnitIdx :
            (local_collection[i].type = "Dir"
             /\ Below(local_collection[j].local_path, local_collection[i].local_path))
            => i < j

\* a scan with a Dir inside a Dir, files at both levels and a deferred image
C7_Witness ==
    /\ pc = "ready"
    /\ \E i, j, k, m \in UnitIdx :
        /\ local_collection[i].type = "Dir" /\ local_collection[i].local_path # LOCAL_ROOT
        /\ local_collection[j].type = "Dir"
        /\ Below(local_collection[j].local_path, local_collection[i].local_path)
        /\ IsFileUnit(local_collection[k])
        /\ Below(local_collection[k].local_path, local_collection[j].local_path)
        /\ IsFileUnit(local_collection[m])
        /\ parent(local_collection[m].local_path) = local_collection[i].local_path
        /\ suffix(local_collection[m].local_path) \in IMAGE_SUFFIXES

\* C10: a directory has a Dir unit in the scan output exactly when the output holds
\* a unit below it, and a directory that holds only files excluded by the filter
\* set has neither
C10_DirPresence ==
    pc = "ready" =>
        \A P \in {p \in DOMAIN local_fs : is_dir(p)} :
            /\ DirUnitOf(P) <=> UnitBelow(P)
            /\ (\A c \in LocalChildren(P) : ExcludedFile(c, filter_set))
               => ~DirUnitOf(P) /\ ~UnitBelow(P)

\* a scan that elides a directory holding only an excluded file, next to a
\* directory that is kept
C10_Witness ==
    /\ pc = "ready"
    /\ \E P, Q \in {p \in DOMAIN local_fs : is_dir(p)} :
        /\ LocalChildren(P) # {}
        /\ \A c \in LocalChildren(P) : ExcludedFile(c, filter_set)
        /\ ~DirUnitOf(P)
        /\ Q # LOCAL_ROOT /\ DirUnitOf(Q) /\ UnitBelow(Q)

----------------------------------------------------------------------------
(* Properties of a run of sync (checked under Spec) *)

LogIdx == 1..Len(log)
DelIdx == 1..Len(to_delete)
HasLine(l, action) == \E i \in 1..Len(l) : l[i].action = action
\* no "Deleting" line after a line of another kind
DeletesFirst(l) ==
    \A i, j \in 1..Len(l) : (i < j /\ l[j].action = "Deleting") => l[i].action = "Deleting"
\* the run has printed "Creating directory" or "Syncing"
CreateStarted == \E i \in LogIdx : log[i].action # "Deleting"
\* the file times as the second loop compares them
LocalMtime(u) == local_fs[u.local_path].mtime
ListedMtime(u) == remote_file_mtimes[u.remote_path]
Listed(u) == u.remote_path \in DOMAIN remote_file_mtimes

\* C2, as claimed: every delete action comes before every create/update action,
\* and no remote entry is removed once the first create/update action has started
C2_AsClaimed ==
    [][/\ DeletesFirst(log')
       /\ CreateStarted => DOMAIN remote \subseteq DOMAIN remote']_vars

\* C2, amended: every delete action comes before every create/update action, and
\* once the first create/update action has started the only entry removed is the
\* one at the remote path of the file unit being updated, unlinked right before
\* its transform
C2_DeleteBeforeCreate ==
    [][/\ DeletesFirst(log')
       /\ (CreateStarted /\ ~(DOMAIN remote \subseteq DOMAIN remote'))
          => /\ pc = "unlink" /\ pc' = "convert"
             /\ DOMAIN remote \ DOMAIN remote' = {local_collection[ui].remote_path}]_vars

\* a live run that deleted, created a directory, and has just unlinked the stale
\* remote file of the unit it is about to convert
C2_Witness ==
    /\ pc = "convert"
    /\ Listed(local_collection[ui])
    /\ ~r_exists(remote, local_collection[ui].remote_path)
    /\ HasLine(log, "Deleting")
    /\ HasLine(log, "Creating directory")

\* C3: of two paths slated for deletion, one below the other, the lower one comes
\* first in to_delete and is deleted first
C3_DeepestFirst ==
    /\ \A i, j \in DelIdx : Below(to_delete[j], to_delete[i]) => j < i
    /\ \A i, j \in LogIdx :
          (/\ log[i].action = "Deleting" /\ log[j].action = "Deleting"
           /\ Below(log[j].path, log[i].path)) => j < i

\* a live run that deleted a file, then its directory, then the directory above
C3_Witness ==
    /\ live
    /\ \E i, j, k \in LogIdx :
        /\ i < j /\ j < k
        /\ log[i].action = "Deleting" /\ log[j].action = "Deleting" /\ log[k].action = "Deleting"
        /\ Below(log[i].path, log[j].path)
        /\ Below(log[j].path, log[k].path)

\* C4: every listed entry below a path slated for deletion is slated too and comes
\* earlier in to_delete, and a directory that a live run is about to remove is empty
C4_EmptyWhenRemoved ==
    /\ \A i \in DelIdx : \A q \in DOMAIN remote_file_mtimes :
          Below(q, to_delete[i]) => \E j \in DelIdx : j < i /\ to_delete[j] = q
    /\ (pc = "delete" /\ live /\ r_is_dir(remote, to_delete[di]))
          => r_children(remote, to_delete[di]) = {}

\* a live run about to remove a directory whose listed entries it has removed,
\* while the directory above it is kept for a local unit
C4_Witness ==
    /\ pc = "delete" /\ live
    /\ r_is_dir(remote, to_delete[di])
    /\ \E j \in DelIdx : j < di /\ Below(to_delete[j], to_delete[di])
    /\ \E i \in UnitIdx : local_collection[i].remote_path = parent(to_delete[di])
                          /\ local_collection[i].remote_path # REMOTE_ROOT

\* C5: when the second loop meets a file unit whose remote path is listed, it
\* prints "Syncing" and (live) goes on to overwrite exactly when the local mtime is
\* greater than the listed one; otherwise it does nothing for the unit
C5_StalenessTrigger ==
    [][(pc = "units" /\ IsFileUnit(local_collection[ui]) /\ Listed(local_collection[ui]))
       => LET f == local_collection[ui]
              newer == LocalMtime(f) > ListedMtime(f)
          IN /\ newer <=> log' = Append(log, LogLine("Syncing", f.remote_path))
             /\ (newer /\ live) <=> pc' = "unlink"
             /\ ~newer => /\ UNCHANGED <<remote, log>>
                          /\ ui' = ui + 1]_vars

\* a run that has skipped a listed file of equal time and one of lesser time, and
\* printed "Syncing" for a listed file of greater time
C5_Witness ==
    \E i, j, k \in UnitIdx :
        /\ i < ui /\ j < ui /\ k < ui
        /\ IsFileUnit(local_collection[i]) /\ Listed(local_collection[i])
        /\ LocalMtime(local_collection[i]) = ListedMtime(local_collection[i])
        /\ IsFileUnit(local_collection[j]) /\ Listed(local_collection[j])
        /\ LocalMtime(local_collection[j]) < ListedMtime(local_collection[j])
        /\ IsFileUnit(local_collection[k]) /\ Listed(local_collection[k])
        /\ LocalMtime(local_collection[k]) > ListedMtime(local_collection[k])
        /\ log = <<LogLine("Syncing", local_collection[k].remote_path)>>

\* C6, as claimed: when a live run calls mkdir for a Dir unit, the parent of the
\* remote path exists as a directory
C6_AsClaimed ==
    (/\ pc = "units" /\ live
     /\ local_collection[ui].type = "Dir"
     /\ needs_update(local_collection[ui], remote_file_mtimes))
    => r_is_dir(remote, parent(local_collection[ui].remote_path))

\* C8: no step of a dry run changes the remote tree or the local tree
C8_DryRunNoMutation ==
    [][dry_run => (remote' = remote /\ local_fs' = local_fs)]_vars

\* a dry run that ended after printing lines of the three kinds
C8_Witness ==
    /\ dry_run /\ pc = "done"
    /\ HasLine(log, "Deleting")
    /\ HasLine(log, "Creating directory")
    /\ HasLine(log, "Syncing")

\* C9, as claimed: a live run that follows a dry run on the same local units and
\* the same (listed) remote tree ends with the lines the dry run printed
C9_AsClaimed ==
    (/\ run = 2 /\ prev_dry /\ live
     /\ pc \in {"done", "error"}
     /\ REMOTE_ROOT \in DOMAIN remote_file_mtimes)
    => log = prev_log

\* C1, as claimed: a run that follows a live run that ended without error prints
\* no action at all
C1_AsClaimed ==
    (run = 2 /\ ~prev_dry) => log = <<>>

----------------------------------------------------------------------------
(* Further properties of the scan (checked under SpecScan) *)

\* a file the scanner meets: every directory above it is scanned
ScannedFile(p) ==
    /\ is_file(p)
    /\ Below(p, LOCAL_ROOT)
    /\ \A k \in (Len(LOCAL_ROOT) + 1)..(Len(p) - 1) :
          is_dir(SubSeq(p, 1, k)) /\ p[k] # N(".mediaartlocal", "")
FileUnitOf(p) == \E i \in UnitIdx :
    IsFileUnit(local_collection[i]) /\ local_collection[i].local_path = p
\* playlist, member of the filter set, or image
Qualifies(p) ==
    suffix(p) = ".m3u" \/ p \in filter_set \/ suffix(p) \in IMAGE_SUFFIXES
\* an image outside the filter set
DeferredImage(p) ==
    suffix(p) # ".m3u" /\ p \notin filter_set /\ suffix(p) \in IMAGE_SUFFIXES
\* in the output, the unit of a deferred image comes after every other unit of its
\* directory's output that is not itself a deferred image of that directory
ImagesLast ==
    \A i, j \in UnitIdx :
        (/\ IsFileUnit(local_collection[i])
         /\ DeferredImage(local_collection[i].local_path)
         /\ Below(local_collection[j].local_path, parent(local_collection[i].local_path))
         /\ ~(/\ parent(local_collection[j].local_path) = parent(local_collection[i].local_path)
              /\ DeferredImage(local_collection[j].local_path)))
        => j < i

\* C11, as claimed: a file met by the scanner is emitted as a file unit exactly
\* when it is a playlist, a member of the filter set or an image, and a deferred
\* image comes after all other files of its directory's output
C11_AsClaimed ==
    pc = "ready" =>
        /\ \A p \in {q \in DOMAIN local_fs : ScannedFile(q)} : FileUnitOf(p) <=> Qualifies(p)
        /\ ImagesLast

\* the remote path the mapping is said to return for a path inside the local root
MappedAsClaimed(lp) ==
    LET k == Len(LOCAL_ROOT) + 1
    IN IF Len(lp) >= k /\ lp[k] = N(".playlists", "")
       THEN REMOTE_ROOT \o <<N("Playlists", "")>> \o SubSeq(lp, k + 1, Len(lp))
       ELSE REMOTE_ROOT \o SubSeq(lp, k, Len(lp))

\* C12: every local path inside the local root maps to remote_root/Playlists/<rel>
\* when it lies in the playlists subtree and to remote_root/<rel> otherwise; the
\* remote path of an audio-transcode unit is that mapping with the extension
\* rewritten to .ogg, and every other unit keeps the mapping unchanged
C12_PathMapping ==
    /\ \A lp \in DOMAIN local_fs :
          convert_path_local_to_remote(lp) = MappedAsClaimed(lp)
    /\ \A i \in UnitIdx :
          LET u == local_collection[i]
          IN IF u.type = "OpusConvertFile"
             THEN /\ u.remote_path = with_suffix(MappedAsClaimed(u.local_path), ".ogg")
                  /\ name(u.remote_path).stem = name(u.local_path).stem
             ELSE /\ u.remote_path = MappedAsClaimed(u.local_path)
                  /\ (u.local_path # LOCAL_PLAYLISTS_ROOT =>
                         name(u.remote_path) = name(u.local_path))

C12_Witness ==
    /\ pc = "ready"
    /\ \E i, j, k \in UnitIdx :
          /\ local_collection[i].type = "OpusConvertFile"
          /\ suffix(local_collection[i].local_path) = ".flac"
          /\ suffix(local_collection[i].remote_path) = ".ogg"
          /\ Below(local_collection[j].local_path, LOCAL_PLAYLISTS_ROOT)
          /\ local_collection[j].remote_path[Len(REMOTE_ROOT) + 1] = N("Playlists", "")
          /\ local_collection[k].type = "File"
          /\ suffix(local_collection[k].local_path) = ".JPG"
          /\ local_collection[k].remote_path[Len(REMOTE_ROOT) + 1] = N("A", "")

----------------------------------------------------------------------------
(* Further properties of the sync (checked under Spec) *)

\* C13: at its turn in the second loop, a unit whose remote path is absent from
\* the remote listing is acted on whatever the modification times (mkdir for a
\* Dir, the update of a file unit), and a Dir whose remote path is listed is
\* never acted on
C13_MissingTriggers ==
    [][pc = "units" =>
        LET f == local_collection[ui]
        IN /\ (~Listed(f) /\ f.type = "Dir") =>
                 /\ log' = Append(log, LogLine("Creating directory", f.remote_path))
                 /\ live => IF mkdir_ok(remote, f.remote_path)
                            THEN remote' = r_put(remote, f.remote_path, "dir", now)
                            ELSE pc' = "error"
           /\ (~Listed(f) /\ IsFileUnit(f)) =>
                 /\ log' = Append(log, LogLine("Syncing", f.remote_path))
                 /\ live => pc' = "unlink"
           /\ (Listed(f) /\ f.type = "Dir") =>
                 /\ UNCHANGED <<remote, log>>
                 /\ ui' = ui + 1]_vars

C13_Witness ==
    /\ live
    /\ pc = "done"
    /\ \E i, j, k \in UnitIdx :
          /\ local_collection[i].type = "Dir"
          /\ ~Listed(local_collection[i])
          /\ r_is_dir(remote, local_collection[i].remote_path)
          /\ \E n \in LogIdx :
                log[n] = LogLine("Creating directory", local_collection[i].remote_path)
          /\ IsFileUnit(local_collection[j])
          /\ ~Listed(local_collection[j])
          /\ LocalMtime(local_collection[j]) < TicksPerSec
          /\ remote[local_collection[j].remote_path].kind = "file"
          /\ \E n \in LogIdx : log[n] = LogLine("Syncing", local_collection[j].remote_path)
          /\ local_collection[k].type = "Dir"
          /\ local_collection[k].local_path # LOCAL_ROOT
          /\ Listed(local_collection[k])
          /\ \A n \in LogIdx : log[n].path # local_collection[k].remote_path

\* C14: when a live sync has completed without error, the entries at and under
\* the remote root are exactly the remote paths of the local units
C14_Mirror ==
    (live /\ pc = "done") =>
        {q \in DOMAIN remote : IsPrefix(REMOTE_ROOT, q)}
            = {local_collection[i].remote_path : i \in UnitIdx}

C14_Witness ==
    /\ live
    /\ pc = "done"
    /\ \E i, j, k \in LogIdx :
          /\ log[i].action = "Deleting"
          /\ log[i].path \notin DOMAIN remote
          /\ log[j].action = "Creating directory"
          /\ log[k].action = "Syncing"
          /\ log[j].path \in DOMAIN remote
          /\ log[k].path \in DOMAIN remote
    /\ \E u \in UnitIdx : \A n \in LogIdx : log[n].path # local_collection[u].remote_path

----------------------------------------------------------------------------
(* Failures of the mutations (checked under SpecFail) *)

----------------------------------------------------------------------------
(* The unknown kind of entry (checked under Spec) *)

\* an entry that is neither a file nor a directory, in a directory the scan
\* enters: no .mediaartlocal above it
UnknownMet ==
    \E p \in DOMAIN local_fs :
        /\ ~is_file(p) /\ ~is_dir(p)
        /\ Below(p, LOCAL_ROOT)
        /\ \A k \in (Len(LOCAL_ROOT) + 1)..(Len(p) - 1) :
              is_dir(SubSeq(p, 1, k)) /\ p[k] # N(".mediaartlocal", "")

\* C17: when the local tree holds an entry of unknown kind outside a skipped
\* .mediaartlocal directory, the only step of the run is the failure of the
\* construction: the run ends with an error and the remote tree, the log and the
\* collection are untouched; without such an entry the construction succeeds
C17_UnknownKindFatal ==
    [][/\ UnknownMet =>
             /\ pc = "init"
             /\ pc' = "error"
             /\ UNCHANGED <<remote, log, local_collection, remote_file_mtimes, to_delete>>
       /\ (~UnknownMet /\ pc = "init" /\ is_file(MANIFEST)) => pc' = "ready"
      ]_vars

\* the run has ended on the unknown entry while the remote tree still holds an
\* entry that a sync would have deleted
C17_Witness ==
    /\ pc = "error"
    /\ UnknownMet
    /\ log = <<>>
    /\ local_collection = <<>>
    /\ is_dir(L(<<N("A", "")>>))
    /\ \E q \in DOMAIN remote : Below(q, REMOTE_ROOT) /\ q[Len(REMOTE_ROOT) + 1] = N("A", "")

\* a special file inside .mediaartlocal has not stopped a live run
C17_SkippedWitness ==
    /\ pc = "done"
    /\ live
    /\ ~UnknownMet
    /\ \E p \in DOMAIN local_fs : ~is_file(p) /\ ~is_dir(p)
    /\ Len(log) > 0

----------------------------------------------------------------------------
(* Uniqueness of the remote paths (checked under SpecScan) *)

\* C18, as claimed: no two units of the scan output have the same remote path
C18_AsClaimed ==
    \A i, j \in UnitIdx :
        local_collection[i].remote_path = local_collection[j].remote_path => i = j

----------------------------------------------------------------------------
(* A remote entry of the other kind (checked under Spec) *)

\* the remote entry at the unit's remote path has the kind of the unit
SameKind(u) ==
    /\ r_exists(remote, u.remote_path)
    /\ r_is_dir(remote, u.remote_path) <=> (u.type = "Dir")

\* C19, as claimed: a live run that has listed the remote root completes without
\* error and leaves at every unit's remote path an entry of the unit's kind,
\* whatever the kind of the entries it found there
C19_AsClaimed ==
    (live /\ REMOTE_ROOT \in DOMAIN remote_file_mtimes /\ pc \in {"done", "error"}) =>
        /\ pc = "done"
        /\ \A i \in UnitIdx : SameKind(local_collection[i])

====
